---- MODULE Spec2Model ----
(***************************************************************************)
(* A model of quantcrypt's X-Wing hybrid KEM manager (src/kem/xwing.rs)    *)
(* and of the length registry it is used with (ss_len.rs, sk_len.rs).      *)
(*                                                                         *)
(* Byte strings are symbolic: a byte string is a sequence of segments      *)
(* <<term, off, len>>, "len bytes starting at offset off of the value      *)
(* term".  Slicing and concatenation work on offsets and lengths exactly   *)
(* as on Vec<u8>; the cryptographic primitives build new terms from their  *)
(* inputs, so two outputs are equal only when the primitive was applied to *)
(* equal inputs (hash and XOF are collision free, the component KEMs are   *)
(* correct).                                                               *)
(***************************************************************************)
EXTENDS Integers, Sequences, FiniteSets, TLC

VARIABLES
    kem_info,   \* XWingKemManager.kem_info: the variant given to new()
    kp,         \* the key pair the caller holds: {} or {<<pk, sk>>}
    enc,        \* the encapsulation the caller holds: {} or {<<pk, ss, ct>>}
    last,       \* the most recent call: operation, inputs, outcome, trace
    memo,       \* one earlier key generation or decapsulation, kept to compare
    inflight    \* per caller, the call it is in: operation, inputs, position, locals

vars == <<kem_info, kp, enc, last, memo, inflight>>

----------------------------------------------------------------------------
(* Bounds of the model *)

NSeeds == 3     \* distinct 32-byte values a randomness source can yield
NRand == 1      \* distinct random coins of each component encapsulation
NJunk == 2      \* distinct caller-made (not KEM-made) byte patterns
NCallers == 2   \* callers that use one instance at the same time

(* Program constants *)

SeedLen == 32       \* vec![0u8; 32]
ExpandedLen == 96   \* shake.derive(sk, &[], 96, None)
PkLen == 1216       \* pk.len() != 1216
PkMLen == 1184      \* &pk[0..1184]
CtLen == 1120       \* ct.len() != 1120
CtMLen == 1088      \* &ct[0..1088]

----------------------------------------------------------------------------
(* Byte strings *)

Seg(t, o, n) == <<t, o, n>>

Bytes(t, n) == IF n = 0 THEN <<>> ELSE <<Seg(t, 0, n)>>

RECURSIVE ByteLen(_)
ByteLen(b) == IF b = <<>> THEN 0 ELSE Head(b)[3] + ByteLen(Tail(b))

RECURSIVE Drop(_, _)
Drop(b, n) ==
    IF n = 0 \/ b = <<>> THEN b
    ELSE LET s == Head(b)
         IN  IF s[3] <= n THEN Drop(Tail(b), n - s[3])
             ELSE <<Seg(s[1], s[2] + n, s[3] - n)>> \o Tail(b)

RECURSIVE Take(_, _)
Take(b, n) ==
    IF n = 0 \/ b = <<>> THEN <<>>
    ELSE LET s == Head(b)
         IN  IF s[3] <= n THEN <<s>> \o Take(Tail(b), n - s[3])
             ELSE <<Seg(s[1], s[2], n)>>

\* &b[lo..hi]; every use in the program is guarded so that hi <= b.len()
Slice(b, lo, hi) == Take(Drop(b, lo), hi - lo)

\* [a, b].concat(): adjacent pieces of one value join up again
Cat(a, b) ==
    IF a = <<>> THEN b
    ELSE IF b = <<>> THEN a
    ELSE LET x == a[Len(a)]
             y == b[1]
         IN  IF x[1] = y[1] /\ x[2] + x[3] = y[2]
             THEN SubSeq(a, 1, Len(a) - 1) \o <<Seg(x[1], x[2], x[3] + y[3])>> \o Tail(b)
             ELSE a \o b

\* b is the whole n-byte value of a term with this tag
IsWhole(b, tag, n) ==
    /\ Len(b) = 1
    /\ b[1][1][1] = tag
    /\ b[1][2] = 0
    /\ b[1][3] = n

----------------------------------------------------------------------------
(* Results *)

Ok(v) == [ok |-> TRUE, err |-> "", val |-> v]
Err(e) == [ok |-> FALSE, err |-> e, val |-> <<>>]

\* unwinding out of the call: nothing is returned, neither Ok nor Err
Panicked == [ok |-> FALSE, err |-> "panic", val |-> <<>>]

Ret(o, c) == [out |-> o, calls |-> c]

----------------------------------------------------------------------------
(* Values that come from outside the manager *)

Seed(k) == Bytes(<<"seed", k>>, SeedLen)     \* 32 bytes a randomness source yields
Coin(k) == Bytes(<<"coin", k>>, 32)          \* random coins of an encapsulation
Junk(j, n) == Bytes(<<"junk", j>>, n)        \* bytes made up by a caller
Msb(b) == Bytes(<<"msb", b>>, 1)             \* the byte b with its top bit flipped

Seeds == 1..NSeeds
Coins == 1..NRand
Junks == 1..NJunk
Callers == 1..NCallers

----------------------------------------------------------------------------
(* The registry: KemType::get_ss_len *)

KemTypes ==
    {"P256", "P384", "X25519", "BrainpoolP256r1", "BrainpoolP384r1", "X448",
     "RsaOAEP2048", "RsaOAEP3072", "RsaOAEP4096",
     "MlKem512", "MlKem768", "MlKem1024",
     "MlKem768BrainpoolP256r1", "MlKem768X25519", "MlKem1024P384",
     "MlKem1024BrainpoolP384r1", "MlKem1024X448", "MlKem768Rsa2048",
     "MlKem768Rsa3072", "MlKem768Rsa4096", "MlKem768P384", "XWing"}

get_ss_len(t) ==
    CASE t = "P256" -> 32
      [] t = "P384" -> 48
      [] t = "X25519" -> 32
      [] t = "BrainpoolP256r1" -> 32
      [] t = "BrainpoolP384r1" -> 48
      [] t = "X448" -> 56
      [] t = "RsaOAEP2048" -> 32
      [] t = "RsaOAEP3072" -> 32
      [] t = "RsaOAEP4096" -> 32
      [] t = "MlKem512" -> 32
      [] t = "MlKem768" -> 32
      [] t = "MlKem1024" -> 32
      [] t = "MlKem768BrainpoolP256r1" -> 32
      [] t = "MlKem768X25519" -> 32
      [] t = "MlKem1024P384" -> 32
      [] t = "MlKem1024BrainpoolP384r1" -> 32
      [] t = "MlKem1024X448" -> 32
      [] t = "MlKem768Rsa2048" -> 32
      [] t = "MlKem768Rsa3072" -> 32
      [] t = "MlKem768Rsa4096" -> 32
      [] t = "MlKem768P384" -> 32
      [] t = "XWing" -> 32

----------------------------------------------------------------------------
(* The registry: SKLen::get_sk_len for DsaType and for PrehashDsaType *)

\* Option<usize>
None == <<>>
Some(n) == <<n>>

DsaTypes ==
    {"Rsa2048Pkcs15Sha256", "Rsa2048PssSha256", "Rsa3072Pkcs15Sha256",
     "Rsa3072PssSha256", "Rsa4096Pkcs15Sha384", "Rsa4096PssSha384",
     "EcdsaP256SHA256", "EcdsaBrainpoolP256r1SHA256", "SlhDsaSha2_128s",
     "SlhDsaSha2_128f", "SlhDsaSha2_192s", "SlhDsaSha2_192f",
     "SlhDsaSha2_256s", "SlhDsaSha2_256f", "SlhDsaShake128s",
     "SlhDsaShake128f", "SlhDsaShake192s", "SlhDsaShake192f",
     "SlhDsaShake256s", "SlhDsaShake256f", "EcdsaP384SHA384",
     "EcdsaBrainpoolP384r1SHA384", "Ed25519", "Ed448"}

\* as get_sk_len, with 0 standing for "no fixed length"
DsaType_get_sk_len_zero(t) ==
    CASE t = "Rsa2048Pkcs15Sha256" -> Some(0)
      [] t = "Rsa2048PssSha256" -> Some(0)
      [] t = "Rsa3072Pkcs15Sha256" -> Some(0)
      [] t = "Rsa3072PssSha256" -> Some(0)
      [] t = "Rsa4096Pkcs15Sha384" -> Some(0)
      [] t = "Rsa4096PssSha384" -> Some(0)
      [] t = "EcdsaP256SHA256" -> Some(32)
      [] t = "EcdsaBrainpoolP256r1SHA256" -> Some(32)
      [] t = "SlhDsaSha2_128s" -> Some(32 * 2)
      [] t = "SlhDsaSha2_128f" -> Some(32 * 2)
      [] t = "SlhDsaSha2_192s" -> Some(48 * 2)
      [] t = "SlhDsaSha2_192f" -> Some(48 * 2)
      [] t = "SlhDsaSha2_256s" -> Some(64 * 2)
      [] t = "SlhDsaSha2_256f" -> Some(64 * 2)
      [] t = "SlhDsaShake128s" -> Some(32 * 2)
      [] t = "SlhDsaShake128f" -> Some(32 * 2)
      [] t = "SlhDsaShake192s" -> Some(48 * 2)
      [] t = "SlhDsaShake192f" -> Some(48 * 2)
      [] t = "SlhDsaShake256s" -> Some(64 * 2)
      [] t = "SlhDsaShake256f" -> Some(64 * 2)
      [] t = "EcdsaP384SHA384" -> Some(48)
      [] t = "EcdsaBrainpoolP384r1SHA384" -> Some(48)
      [] t = "Ed25519" -> Some(32)
      [] t = "Ed448" -> Some(57)

DsaType_get_sk_len(t) ==
    CASE t = "Rsa2048Pkcs15Sha256" -> None
      [] t = "Rsa2048PssSha256" -> None
      [] t = "Rsa3072Pkcs15Sha256" -> None
      [] t = "Rsa3072PssSha256" -> None
      [] t = "Rsa4096Pkcs15Sha384" -> None
      [] t = "Rsa4096PssSha384" -> None
      [] t = "EcdsaP256SHA256" -> Some(32)
      [] t = "EcdsaBrainpoolP256r1SHA256" -> Some(32)
      [] t = "SlhDsaSha2_128s" -> Some(32 * 2)
      [] t = "SlhDsaSha2_128f" -> Some(32 * 2)
      [] t = "SlhDsaSha2_192s" -> Some(48 * 2)
      [] t = "SlhDsaSha2_192f" -> Some(48 * 2)
      [] t = "SlhDsaSha2_256s" -> Some(64 * 2)
      [] t = "SlhDsaSha2_256f" -> Some(64 * 2)
      [] t = "SlhDsaShake128s" -> Some(32 * 2)
      [] t = "SlhDsaShake128f" -> Some(32 * 2)
      [] t = "SlhDsaShake192s" -> Some(48 * 2)
      [] t = "SlhDsaShake192f" -> Some(48 * 2)
      [] t = "SlhDsaShake256s" -> Some(64 * 2)
      [] t = "SlhDsaShake256f" -> Some(64 * 2)
      [] t = "EcdsaP384SHA384" -> Some(48)
      [] t = "EcdsaBrainpoolP384r1SHA384" -> Some(48)
      [] t = "Ed25519" -> Some(32)
      [] t = "Ed448" -> Some(57)

PrehashDsaTypes ==
    {"MlDsa44", "MlDsa65", "MlDsa87", "MlDsa44Rsa2048Pss",
     "MlDsa44Rsa2048Pkcs15", "MlDsa44Ed25519", "MlDsa44EcdsaP256",
     "MlDsa65Rsa3072Pss", "MlDsa65Rsa3072Pkcs15", "MlDsa65Rsa4096Pss",
     "MlDsa65Rsa4096Pkcs15", "MlDsa65EcdsaP384",
     "MlDsa65EcdsaBrainpoolP256r1", "MlDsa65Ed25519", "MlDsa87EcdsaP384",
     "MlDsa87EcdsaBrainpoolP384r1", "MlDsa87Ed448",
     "MlDsa44Rsa2048PssSha256", "MlDsa44Rsa2048Pkcs15Sha256",
     "MlDsa44Ed25519Sha512", "MlDsa44EcdsaP256Sha256",
     "MlDsa65Rsa3072PssSha512", "MlDsa65Rsa3072Pkcs15Sha512",
     "MlDsa65Rsa4096PssSha512", "MlDsa65Rsa4096Pkcs15Sha512",
     "MlDsa65EcdsaP384Sha512", "MlDsa65EcdsaBrainpoolP256r1Sha512",
     "MlDsa65Ed25519Sha512", "MlDsa87EcdsaP384Sha512",
     "MlDsa87EcdsaBrainpoolP384r1Sha512", "MlDsa87Ed448Sha512"}

\* as get_sk_len, without the 10 bytes of the enclosing sequence
PrehashDsaType_get_sk_len_no_overhead(t) ==
    CASE t = "MlDsa44" -> Some(2560)
      [] t = "MlDsa65" -> Some(4032)
      [] t = "MlDsa87" -> Some(4896)
      [] t = "MlDsa44Rsa2048Pss" -> None
      [] t = "MlDsa44Rsa2048Pkcs15" -> None
      [] t = "MlDsa44Ed25519" -> Some(2560 + 32)
      [] t = "MlDsa44EcdsaP256" -> Some(2560 + 32)
      [] t = "MlDsa65Rsa3072Pss" -> None
      [] t = "MlDsa65Rsa3072Pkcs15" -> None
      [] t = "MlDsa65Rsa4096Pss" -> None
      [] t = "MlDsa65Rsa4096Pkcs15" -> None
      [] t = "MlDsa65EcdsaP384" -> Some(4032 + 48)
      [] t = "MlDsa65EcdsaBrainpoolP256r1" -> Some(4032 + 32)
      [] t = "MlDsa65Ed25519" -> Some(4032 + 32)
      [] t = "MlDsa87EcdsaP384" -> Some(4896 + 48)
      [] t = "MlDsa87EcdsaBrainpoolP384r1" -> Some(4896 + 48)
      [] t = "MlDsa87Ed448" -> Some(4896 + 57)
      [] t = "MlDsa44Rsa2048PssSha256" -> None
      [] t = "MlDsa44Rsa2048Pkcs15Sha256" -> None
      [] t = "MlDsa44Ed25519Sha512" -> Some(2560 + 32)
      [] t = "MlDsa44EcdsaP256Sha256" -> Some(2560 + 32)
      [] t = "MlDsa65Rsa3072PssSha512" -> None
      [] t = "MlDsa65Rsa3072Pkcs15Sha512" -> None
      [] t = "MlDsa65Rsa4096PssSha512" -> None
      [] t = "MlDsa65Rsa4096Pkcs15Sha512" -> None
      [] t = "MlDsa65EcdsaP384Sha512" -> Some(4032 + 48)
      [] t = "MlDsa65EcdsaBrainpoolP256r1Sha512" -> Some(4032 + 32)
      [] t = "MlDsa65Ed25519Sha512" -> Some(4032 + 32)
      [] t = "MlDsa87EcdsaP384Sha512" -> Some(4896 + 48)
      [] t = "MlDsa87EcdsaBrainpoolP384r1Sha512" -> Some(4896 + 48)
      [] t = "MlDsa87Ed448Sha512" -> Some(4896 + 57)

PrehashDsaType_get_sk_len(t) ==
    CASE t = "MlDsa44" -> Some(2560)
      [] t = "MlDsa65" -> Some(4032)
      [] t = "MlDsa87" -> Some(4896)
      [] t = "MlDsa44Rsa2048Pss" -> None
      [] t = "MlDsa44Rsa2048Pkcs15" -> None
      [] t = "MlDsa44Ed25519" -> Some(2560 + 32 + 10)
      [] t = "MlDsa44EcdsaP256" -> Some(2560 + 32 + 10)
      [] t = "MlDsa65Rsa3072Pss" -> None
      [] t = "MlDsa65Rsa3072Pkcs15" -> None
      [] t = "MlDsa65Rsa4096Pss" -> None
      [] t = "MlDsa65Rsa4096Pkcs15" -> None
      [] t = "MlDsa65EcdsaP384" -> Some(4032 + 48 + 10)
      [] t = "MlDsa65EcdsaBrainpoolP256r1" -> Some(4032 + 32 + 10)
      [] t = "MlDsa65Ed25519" -> Some(4032 + 32 + 10)
      [] t = "MlDsa87EcdsaP384" -> Some(4896 + 48 + 10)
      [] t = "MlDsa87EcdsaBrainpoolP384r1" -> Some(4896 + 48 + 10)
      [] t = "MlDsa87Ed448" -> Some(4896 + 57 + 10)
      [] t = "MlDsa44Rsa2048PssSha256" -> None
      [] t = "MlDsa44Rsa2048Pkcs15Sha256" -> None
      [] t = "MlDsa44Ed25519Sha512" -> Some(2560 + 32 + 10)
      [] t = "MlDsa44EcdsaP256Sha256" -> Some(2560 + 32 + 10)
      [] t = "MlDsa65Rsa3072PssSha512" -> None
      [] t = "MlDsa65Rsa3072Pkcs15Sha512" -> None
      [] t = "MlDsa65Rsa4096PssSha512" -> None
      [] t = "MlDsa65Rsa4096Pkcs15Sha512" -> None
      [] t = "MlDsa65EcdsaP384Sha512" -> Some(4032 + 48 + 10)
      [] t = "MlDsa65EcdsaBrainpoolP256r1Sha512" -> Some(4032 + 32 + 10)
      [] t = "MlDsa65Ed25519Sha512" -> Some(4032 + 32 + 10)
      [] t = "MlDsa87EcdsaP384Sha512" -> Some(4896 + 48 + 10)
      [] t = "MlDsa87EcdsaBrainpoolP384r1Sha512" -> Some(4896 + 48 + 10)
      [] t = "MlDsa87Ed448Sha512" -> Some(4896 + 57 + 10)

\* the composite variants: an ML-DSA key and a traditional key in one sequence
Composites == PrehashDsaTypes \ {"MlDsa44", "MlDsa65", "MlDsa87"}

\* bytes added by the sequence of two octet strings
SeqOverhead == 10

\* the ML-DSA component a composite is named after
MlDsaComponent(t) ==
    CASE t = "MlDsa44Rsa2048Pss" -> "MlDsa44"
      [] t = "MlDsa44Rsa2048Pkcs15" -> "MlDsa44"
      [] t = "MlDsa44Ed25519" -> "MlDsa44"
      [] t = "MlDsa44EcdsaP256" -> "MlDsa44"
      [] t = "MlDsa65Rsa3072Pss" -> "MlDsa65"
      [] t = "MlDsa65Rsa3072Pkcs15" -> "MlDsa65"
      [] t = "MlDsa65Rsa4096Pss" -> "MlDsa65"
      [] t = "MlDsa65Rsa4096Pkcs15" -> "MlDsa65"
      [] t = "MlDsa65EcdsaP384" -> "MlDsa65"
      [] t = "MlDsa65EcdsaBrainpoolP256r1" -> "MlDsa65"
      [] t = "MlDsa65Ed25519" -> "MlDsa65"
      [] t = "MlDsa87EcdsaP384" -> "MlDsa87"
      [] t = "MlDsa87EcdsaBrainpoolP384r1" -> "MlDsa87"
      [] t = "MlDsa87Ed448" -> "MlDsa87"
      [] t = "MlDsa44Rsa2048PssSha256" -> "MlDsa44"
      [] t = "MlDsa44Rsa2048Pkcs15Sha256" -> "MlDsa44"
      [] t = "MlDsa44Ed25519Sha512" -> "MlDsa44"
      [] t = "MlDsa44EcdsaP256Sha256" -> "MlDsa44"
      [] t = "MlDsa65Rsa3072PssSha512" -> "MlDsa65"
      [] t = "MlDsa65Rsa3072Pkcs15Sha512" -> "MlDsa65"
      [] t = "MlDsa65Rsa4096PssSha512" -> "MlDsa65"
      [] t = "MlDsa65Rsa4096Pkcs15Sha512" -> "MlDsa65"
      [] t = "MlDsa65EcdsaP384Sha512" -> "MlDsa65"
      [] t = "MlDsa65EcdsaBrainpoolP256r1Sha512" -> "MlDsa65"
      [] t = "MlDsa65Ed25519Sha512" -> "MlDsa65"
      [] t = "MlDsa87EcdsaP384Sha512" -> "MlDsa87"
      [] t = "MlDsa87EcdsaBrainpoolP384r1Sha512" -> "MlDsa87"
      [] t = "MlDsa87Ed448Sha512" -> "MlDsa87"

\* the traditional component a composite is named after, as a DsaType
TradComponent(t) ==
    CASE t = "MlDsa44Rsa2048Pss" -> "Rsa2048PssSha256"
      [] t = "MlDsa44Rsa2048Pkcs15" -> "Rsa2048Pkcs15Sha256"
      [] t = "MlDsa44Ed25519" -> "Ed25519"
      [] t = "MlDsa44EcdsaP256" -> "EcdsaP256SHA256"
      [] t = "MlDsa65Rsa3072Pss" -> "Rsa3072PssSha256"
      [] t = "MlDsa65Rsa3072Pkcs15" -> "Rsa3072Pkcs15Sha256"
      [] t = "MlDsa65Rsa4096Pss" -> "Rsa4096PssSha384"
      [] t = "MlDsa65Rsa4096Pkcs15" -> "Rsa4096Pkcs15Sha384"
      [] t = "MlDsa65EcdsaP384" -> "EcdsaP384SHA384"
      [] t = "MlDsa65EcdsaBrainpoolP256r1" -> "EcdsaBrainpoolP256r1SHA256"
      [] t = "MlDsa65Ed25519" -> "Ed25519"
      [] t = "MlDsa87EcdsaP384" -> "EcdsaP384SHA384"
      [] t = "MlDsa87EcdsaBrainpoolP384r1" -> "EcdsaBrainpoolP384r1SHA384"
      [] t = "MlDsa87Ed448" -> "Ed448"
      [] t = "MlDsa44Rsa2048PssSha256" -> "Rsa2048PssSha256"
      [] t = "MlDsa44Rsa2048Pkcs15Sha256" -> "Rsa2048Pkcs15Sha256"
      [] t = "MlDsa44Ed25519Sha512" -> "Ed25519"
      [] t = "MlDsa44EcdsaP256Sha256" -> "EcdsaP256SHA256"
      [] t = "MlDsa65Rsa3072PssSha512" -> "Rsa3072PssSha256"
      [] t = "MlDsa65Rsa3072Pkcs15Sha512" -> "Rsa3072Pkcs15Sha256"
      [] t = "MlDsa65Rsa4096PssSha512" -> "Rsa4096PssSha384"
      [] t = "MlDsa65Rsa4096Pkcs15Sha512" -> "Rsa4096Pkcs15Sha384"
      [] t = "MlDsa65EcdsaP384Sha512" -> "EcdsaP384SHA384"
      [] t = "MlDsa65EcdsaBrainpoolP256r1Sha512" -> "EcdsaBrainpoolP256r1SHA256"
      [] t = "MlDsa65Ed25519Sha512" -> "Ed25519"
      [] t = "MlDsa87EcdsaP384Sha512" -> "EcdsaP384SHA384"
      [] t = "MlDsa87EcdsaBrainpoolP384r1Sha512" -> "EcdsaBrainpoolP384r1SHA384"
      [] t = "MlDsa87Ed448Sha512" -> "Ed448"

\* the pure composite a pre-hashed composite is the pre-hashed form of
PureForm(t) ==
    CASE t = "MlDsa44Rsa2048Pss" -> "MlDsa44Rsa2048Pss"
      [] t = "MlDsa44Rsa2048Pkcs15" -> "MlDsa44Rsa2048Pkcs15"
      [] t = "MlDsa44Ed25519" -> "MlDsa44Ed25519"
      [] t = "MlDsa44EcdsaP256" -> "MlDsa44EcdsaP256"
      [] t = "MlDsa65Rsa3072Pss" -> "MlDsa65Rsa3072Pss"
      [] t = "MlDsa65Rsa3072Pkcs15" -> "MlDsa65Rsa3072Pkcs15"
      [] t = "MlDsa65Rsa4096Pss" -> "MlDsa65Rsa4096Pss"
      [] t = "MlDsa65Rsa4096Pkcs15" -> "MlDsa65Rsa4096Pkcs15"
      [] t = "MlDsa65EcdsaP384" -> "MlDsa65EcdsaP384"
      [] t = "MlDsa65EcdsaBrainpoolP256r1" -> "MlDsa65EcdsaBrainpoolP256r1"
      [] t = "MlDsa65Ed25519" -> "MlDsa65Ed25519"
      [] t = "MlDsa87EcdsaP384" -> "MlDsa87EcdsaP384"
      [] t = "MlDsa87EcdsaBrainpoolP384r1" -> "MlDsa87EcdsaBrainpoolP384r1"
      [] t = "MlDsa87Ed448" -> "MlDsa87Ed448"
      [] t = "MlDsa44Rsa2048PssSha256" -> "MlDsa44Rsa2048Pss"
      [] t = "MlDsa44Rsa2048Pkcs15Sha256" -> "MlDsa44Rsa2048Pkcs15"
      [] t = "MlDsa44Ed25519Sha512" -> "MlDsa44Ed25519"
      [] t = "MlDsa44EcdsaP256Sha256" -> "MlDsa44EcdsaP256"
      [] t = "MlDsa65Rsa3072PssSha512" -> "MlDsa65Rsa3072Pss"
      [] t = "MlDsa65Rsa3072Pkcs15Sha512" -> "MlDsa65Rsa3072Pkcs15"
      [] t = "MlDsa65Rsa4096PssSha512" -> "MlDsa65Rsa4096Pss"
      [] t = "MlDsa65Rsa4096Pkcs15Sha512" -> "MlDsa65Rsa4096Pkcs15"
      [] t = "MlDsa65EcdsaP384Sha512" -> "MlDsa65EcdsaP384"
      [] t = "MlDsa65EcdsaBrainpoolP256r1Sha512" -> "MlDsa65EcdsaBrainpoolP256r1"
      [] t = "MlDsa65Ed25519Sha512" -> "MlDsa65Ed25519"
      [] t = "MlDsa87EcdsaP384Sha512" -> "MlDsa87EcdsaP384"
      [] t = "MlDsa87EcdsaBrainpoolP384r1Sha512" -> "MlDsa87EcdsaBrainpoolP384r1"
      [] t = "MlDsa87Ed448Sha512" -> "MlDsa87Ed448"

RsaTypes ==
    {"Rsa2048Pkcs15Sha256", "Rsa2048PssSha256", "Rsa3072Pkcs15Sha256",
     "Rsa3072PssSha256", "Rsa4096Pkcs15Sha384", "Rsa4096PssSha384"}

----------------------------------------------------------------------------
(* The components the manager holds.  Their code is not part of the files  *)
(* modelled here; they follow the contract the manager relies on: each is  *)
(* a deterministic function of its inputs (and coins), it may reject an    *)
(* input, and a component KEM decapsulates what it encapsulated.           *)

\* Sha3Kdf(Shake256).derive(ikm, &[], n, None): an XOF, defined on any input
shake_derive(ikm, n) == Bytes(<<"shake256", ikm>>, n)

\* inputs the components reject: one designated value of each kind
MlKeyGenRejects(d, z) == d = Slice(shake_derive(Seed(1), ExpandedLen), 0, 32)
X25519Rejects(sk_x) == sk_x = Slice(shake_derive(Seed(2), ExpandedLen), 64, 96)
MlEncapRejects(pk_m) == pk_m = Junk(1, PkMLen)
EcEncapRejects(pk_x) == pk_x = Junk(1, PkLen - PkMLen)
MlDecapRejects(ct_m) == ct_m = Junk(1, CtMLen)
EcDecapRejects(ct_x) == ct_x = Junk(1, CtLen - CtMLen)

\* MlKemManager(MlKem768).key_gen_deterministic(d, z) -> (pk_m, sk_m)
ml_kem_key_gen_deterministic(d, z) ==
    IF MlKeyGenRejects(d, z) THEN Err("InvalidPrivateKey")
    ELSE Ok(<<Bytes(<<"mlkem768_ek", <<d, z>>>>, PkMLen),
              Bytes(<<"mlkem768_dk", <<d, z>>>>, 2400)>>)

\* openssl_utils::get_pk_from_sk_pkey_based(sk_x, Id::X25519)
get_pk_from_sk_pkey_based(sk_x) ==
    IF X25519Rejects(sk_x) THEN Err("Unknown")
    ELSE Ok(<<Bytes(<<"x25519_pk", sk_x>>, 32)>>)

\* a point is decoded with the top bit of its final byte masked off
DecodeU(P) ==
    IF P # <<>> /\ P[Len(P)][1][1] = "msb"
    THEN Cat(SubSeq(P, 1, Len(P) - 1), P[Len(P)][1][2])
    ELSE P

\* X25519(scalar, point): symmetric in the two scalars when point is a public key
X25519(s, P) ==
    LET u == DecodeU(P)
    IN  IF IsWhole(u, "x25519_pk", 32)
        THEN Bytes(<<"x25519_dh", {s, u[1][1][2]}>>, 32)
        ELSE Bytes(<<"x25519_raw", <<s, u>>>>, 32)

\* EcKemManager(X25519).encap(pk_x) -> (ss_x, ct_x), with ephemeral scalar e
ec_kem_encap(pk_x, e) ==
    IF EcEncapRejects(pk_x) THEN Err("EncapFailed")
    ELSE Ok(<<X25519(e, pk_x), Bytes(<<"x25519_pk", e>>, 32)>>)

\* EcKemManager(X25519).decap(sk_x, ct_x) -> ss_x
ec_kem_decap(sk_x, ct_x) ==
    IF EcDecapRejects(ct_x) THEN Err("DecapFailed")
    ELSE Ok(<<X25519(sk_x, ct_x)>>)

\* MlKemManager(MlKem768).encap(pk_m) -> (ss_m, ct_m), with coins m
ml_kem_encap(pk_m, m) ==
    IF MlEncapRejects(pk_m) THEN Err("EncapFailed")
    ELSE Ok(<<Bytes(<<"mlkem768_ss", <<pk_m, m>>>>, 32),
              Bytes(<<"mlkem768_ct", <<pk_m, m>>>>, CtMLen)>>)

\* ct_m was made by ml_kem_encap for the encapsulation key that belongs to sk_m
MlCtMatches(sk_m, ct_m) ==
    /\ IsWhole(sk_m, "mlkem768_dk", 2400)
    /\ IsWhole(ct_m, "mlkem768_ct", CtMLen)
    /\ ct_m[1][1][2][1] = Bytes(<<"mlkem768_ek", sk_m[1][1][2]>>, PkMLen)

\* MlKemManager(MlKem768).decap(sk_m, ct_m) -> ss_m; any other ciphertext of
\* the right length is rejected implicitly, with a secret that depends on it
ml_kem_decap(sk_m, ct_m) ==
    IF MlDecapRejects(ct_m) THEN Err("DecapFailed")
    ELSE IF MlCtMatches(sk_m, ct_m)
         THEN Ok(<<Bytes(<<"mlkem768_ss", ct_m[1][1][2]>>, 32)>>)
         ELSE Ok(<<Bytes(<<"mlkem768_rej", <<sk_m, ct_m>>>>, 32)>>)

\* sha3::Sha3_256 of a byte string
sha3_256(b) == Bytes(<<"sha3_256", b>>, 32)

----------------------------------------------------------------------------
(* XWingKemManager *)

\* b"\\./" ++ b"/^\\"
xwing_label == Bytes(<<"xwing_label", 0>>, 6)

expand_decapsulation_key(sk) ==
    LET expanded == shake_derive(sk, ExpandedLen)
        d == Slice(expanded, 0, 32)
        z == Slice(expanded, 32, 64)
        kg == ml_kem_key_gen_deterministic(d, z)
        sk_x == Slice(expanded, 64, 96)
        px == get_pk_from_sk_pkey_based(sk_x)
        c1 == <<"shake.derive", "expanded[0..32]", "expanded[32..64]",
                "ml_kem.key_gen_deterministic">>
        c2 == c1 \o <<"expanded[64..96]", "get_pk_from_sk_pkey_based">>
    IN  IF ~kg.ok THEN Ret(kg, c1)
        ELSE IF ~px.ok THEN Ret(Err("InvalidPrivateKey"), c2)
        ELSE Ret(Ok(<<kg.val[2], sk_x, kg.val[1], px.val[1]>>), c2)

\* the combiner hashing the shared secrets and the public key only
combiner_without_ct(ss_m, ss_x, ct_x, pk_x) ==
    LET info == Cat(Cat(Cat(ss_m, ss_x), pk_x), xwing_label)
    IN  Ok(<<sha3_256(info)>>)

combiner(ss_m, ss_x, ct_x, pk_x) ==
    LET info == Cat(Cat(Cat(Cat(ss_m, ss_x), ct_x), pk_x), xwing_label)
    IN  Ok(<<sha3_256(info)>>)

\* new recording the variant it implements, whatever variant was asked for
new_as_xwing(kem_type) ==
    [kem_info |-> "XWing", ml_kem |-> "MlKem768", ec_kem |-> "X25519",
     shake |-> "Shake256"]

\* new(kem_type): the components are always ML-KEM-768, X25519 and SHAKE-256
new(kem_type) ==
    [kem_info |-> kem_type, ml_kem |-> "MlKem768", ec_kem |-> "X25519",
     shake |-> "Shake256"]

get_kem_info == kem_info

\* key_gen putting the classical public key first
key_gen_pk_swapped(rand) ==
    IF ~rand.ok THEN Ret(Err("KeyPairGenerationFailed"), <<"rand_bytes">>)
    ELSE LET sk == rand.val[1]
             ex == expand_decapsulation_key(sk)
             c == <<"rand_bytes">> \o ex.calls
         IN  IF ~ex.out.ok THEN Ret(ex.out, c)
             ELSE Ret(Ok(<<Cat(ex.out.val[4], ex.out.val[3]), sk>>), c)

\* rand is what openssl::rand::rand_bytes did: Ok(<<32 bytes>>) or an error
key_gen(rand) ==
    IF ~rand.ok THEN Ret(Err("KeyPairGenerationFailed"), <<"rand_bytes">>)
    ELSE LET sk == rand.val[1]
             ex == expand_decapsulation_key(sk)
             c == <<"rand_bytes">> \o ex.calls
         IN  IF ~ex.out.ok THEN Ret(ex.out, c)
             ELSE Ret(Ok(<<Cat(ex.out.val[3], ex.out.val[4]), sk>>), c)

\* key_gen_with_rng handing out again the key pair it generated before
key_gen_with_rng_cached(rand) ==
    IF ~rand.ok THEN Ret(Panicked, <<"rng.fill_bytes">>)
    ELSE IF kp # {} THEN Ret(Ok(CHOOSE k \in kp : TRUE), <<"rng.fill_bytes">>)
    ELSE LET sk == rand.val[1]
             ex == expand_decapsulation_key(sk)
             c == <<"rng.fill_bytes">> \o ex.calls
         IN  IF ~ex.out.ok THEN Ret(ex.out, c)
             ELSE Ret(Ok(<<Cat(ex.out.val[3], ex.out.val[4]), sk>>), c)

\* rand is what rng.fill_bytes did: it filled the buffer, or it could not and
\* panicked (fill_bytes returns nothing, so a failure cannot come back as Err)
key_gen_with_rng(rand) ==
    IF ~rand.ok THEN Ret(Panicked, <<"rng.fill_bytes">>)
    ELSE LET sk == rand.val[1]
             ex == expand_decapsulation_key(sk)
             c == <<"rng.fill_bytes">> \o ex.calls
         IN  IF ~ex.out.ok THEN Ret(ex.out, c)
             ELSE Ret(Ok(<<Cat(ex.out.val[3], ex.out.val[4]), sk>>), c)

\* encap rejecting only public keys that are too short
encap_len_lt(pk, e, m) ==
    IF ByteLen(pk) < PkLen THEN Ret(Err("InvalidPublicKey"), <<>>)
    ELSE LET pk_m == Slice(pk, 0, PkMLen)
             pk_x == Slice(pk, PkMLen, PkLen)
             rx == ec_kem_encap(pk_x, e)
             rm == ml_kem_encap(pk_m, m)
             c1 == <<"pk[0..1184]", "pk[1184..1216]", "ec_kem.encap">>
             c2 == c1 \o <<"ml_kem.encap">>
         IN  IF ~rx.ok THEN Ret(rx, c1)
             ELSE IF ~rm.ok THEN Ret(rm, c2)
             ELSE LET ss == combiner(rm.val[1], rx.val[1], rx.val[2], pk_x)
                      ct == Cat(rm.val[2], rx.val[2])
                  IN  Ret(Ok(<<ss.val[1], ct>>), c2 \o <<"combiner">>)

\* encap putting the classical ciphertext first
encap_ct_swapped(pk, e, m) ==
    IF ByteLen(pk) # PkLen THEN Ret(Err("InvalidPublicKey"), <<>>)
    ELSE LET pk_m == Slice(pk, 0, PkMLen)
             pk_x == Slice(pk, PkMLen, PkLen)
             rx == ec_kem_encap(pk_x, e)
             rm == ml_kem_encap(pk_m, m)
             c1 == <<"pk[0..1184]", "pk[1184..1216]", "ec_kem.encap">>
             c2 == c1 \o <<"ml_kem.encap">>
         IN  IF ~rx.ok THEN Ret(rx, c1)
             ELSE IF ~rm.ok THEN Ret(rm, c2)
             ELSE LET ss == combiner(rm.val[1], rx.val[1], rx.val[2], pk_x)
                      ct == Cat(rx.val[2], rm.val[2])
                  IN  Ret(Ok(<<ss.val[1], ct>>), c2 \o <<"combiner">>)

\* encap running the post-quantum encapsulation first
encap_ml_first(pk, e, m) ==
    IF ByteLen(pk) # PkLen THEN Ret(Err("InvalidPublicKey"), <<>>)
    ELSE LET pk_m == Slice(pk, 0, PkMLen)
             pk_x == Slice(pk, PkMLen, PkLen)
             rx == ec_kem_encap(pk_x, e)
             rm == ml_kem_encap(pk_m, m)
             c1 == <<"pk[0..1184]", "pk[1184..1216]", "ml_kem.encap">>
             c2 == c1 \o <<"ec_kem.encap">>
         IN  IF ~rm.ok THEN Ret(rm, c1)
             ELSE IF ~rx.ok THEN Ret(rx, c2)
             ELSE LET ss == combiner(rm.val[1], rx.val[1], rx.val[2], pk_x)
                      ct == Cat(rm.val[2], rx.val[2])
                  IN  Ret(Ok(<<ss.val[1], ct>>), c2 \o <<"combiner">>)

\* e, m: the coins the two component encapsulations draw
encap(pk, e, m) ==
    IF ByteLen(pk) # PkLen THEN Ret(Err("InvalidPublicKey"), <<>>)
    ELSE LET pk_m == Slice(pk, 0, PkMLen)
             pk_x == Slice(pk, PkMLen, PkLen)
             rx == ec_kem_encap(pk_x, e)
             rm == ml_kem_encap(pk_m, m)
             c1 == <<"pk[0..1184]", "pk[1184..1216]", "ec_kem.encap">>
             c2 == c1 \o <<"ml_kem.encap">>
         IN  IF ~rx.ok THEN Ret(rx, c1)
             ELSE IF ~rm.ok THEN Ret(rm, c2)
             ELSE LET ss == combiner(rm.val[1], rx.val[1], rx.val[2], pk_x)
                      ct == Cat(rm.val[2], rx.val[2])
                  IN  Ret(Ok(<<ss.val[1], ct>>), c2 \o <<"combiner">>)

\* decap binding the ciphertext where the public key belongs and vice versa
decap_binding_swapped(sk, ct) ==
    LET ex == expand_decapsulation_key(sk)
    IN  IF ~ex.out.ok THEN Ret(ex.out, ex.calls)
        ELSE IF ByteLen(ct) # CtLen THEN Ret(Err("InvalidCiphertext"), ex.calls)
        ELSE LET ct_m == Slice(ct, 0, CtMLen)
                 ct_x == Slice(ct, CtMLen, CtLen)
                 rm == ml_kem_decap(ex.out.val[1], ct_m)
                 rx == ec_kem_decap(ex.out.val[2], ct_x)
                 c1 == ex.calls \o <<"ct[0..1088]", "ct[1088..1120]", "ml_kem.decap">>
                 c2 == c1 \o <<"ec_kem.decap">>
             IN  IF ~rm.ok THEN Ret(rm, c1)
                 ELSE IF ~rx.ok THEN Ret(rx, c2)
                 ELSE Ret(combiner(rm.val[1], rx.val[1], ex.out.val[4], ct_x),
                          c2 \o <<"combiner">>)

\* decap rejecting only ciphertexts that are too short
decap_len_lt(sk, ct) ==
    LET ex == expand_decapsulation_key(sk)
    IN  IF ~ex.out.ok THEN Ret(ex.out, ex.calls)
        ELSE IF ByteLen(ct) < CtLen THEN Ret(Err("InvalidCiphertext"), ex.calls)
        ELSE LET ct_m == Slice(ct, 0, CtMLen)
                 ct_x == Slice(ct, CtMLen, CtLen)
                 rm == ml_kem_decap(ex.out.val[1], ct_m)
                 rx == ec_kem_decap(ex.out.val[2], ct_x)
                 c1 == ex.calls \o <<"ct[0..1088]", "ct[1088..1120]", "ml_kem.decap">>
                 c2 == c1 \o <<"ec_kem.decap">>
             IN  IF ~rm.ok THEN Ret(rm, c1)
                 ELSE IF ~rx.ok THEN Ret(rx, c2)
                 ELSE Ret(combiner(rm.val[1], rx.val[1], ct_x, ex.out.val[4]),
                          c2 \o <<"combiner">>)

\* decap keeping the expanded key of the call before, when that was a decap
decap_key_cached(sk, ct) ==
    LET ex == expand_decapsulation_key(IF last.op = "decap" THEN last.in[1] ELSE sk)
    IN  IF ~ex.out.ok THEN Ret(ex.out, ex.calls)
        ELSE IF ByteLen(ct) # CtLen THEN Ret(Err("InvalidCiphertext"), ex.calls)
        ELSE LET ct_m == Slice(ct, 0, CtMLen)
                 ct_x == Slice(ct, CtMLen, CtLen)
                 rm == ml_kem_decap(ex.out.val[1], ct_m)
                 rx == ec_kem_decap(ex.out.val[2], ct_x)
                 c1 == ex.calls \o <<"ct[0..1088]", "ct[1088..1120]", "ml_kem.decap">>
                 c2 == c1 \o <<"ec_kem.decap">>
             IN  IF ~rm.ok THEN Ret(rm, c1)
                 ELSE IF ~rx.ok THEN Ret(rx, c2)
                 ELSE Ret(combiner(rm.val[1], rx.val[1], ct_x, ex.out.val[4]),
                          c2 \o <<"combiner">>)

\* decap going on with an all-zero secret when a component decapsulation fails
decap_masked(sk, ct) ==
    LET ex == expand_decapsulation_key(sk)
    IN  IF ~ex.out.ok THEN Ret(ex.out, ex.calls)
        ELSE IF ByteLen(ct) # CtLen THEN Ret(Err("InvalidCiphertext"), ex.calls)
        ELSE LET ct_m == Slice(ct, 0, CtMLen)
                 ct_x == Slice(ct, CtMLen, CtLen)
                 rm == ml_kem_decap(ex.out.val[1], ct_m)
                 rx == ec_kem_decap(ex.out.val[2], ct_x)
                 zero == Bytes(<<"zero", 0>>, 32)
                 ss_m == IF rm.ok THEN rm.val[1] ELSE zero
                 ss_x == IF rx.ok THEN rx.val[1] ELSE zero
                 c == ex.calls \o <<"ct[0..1088]", "ct[1088..1120]", "ml_kem.decap",
                                    "ec_kem.decap", "combiner">>
             IN  Ret(combiner(ss_m, ss_x, ct_x, ex.out.val[4]), c)

decap(sk, ct) ==
    LET ex == expand_decapsulation_key(sk)
    IN  IF ~ex.out.ok THEN Ret(ex.out, ex.calls)
        ELSE IF ByteLen(ct) # CtLen THEN Ret(Err("InvalidCiphertext"), ex.calls)
        ELSE LET ct_m == Slice(ct, 0, CtMLen)
                 ct_x == Slice(ct, CtMLen, CtLen)
                 rm == ml_kem_decap(ex.out.val[1], ct_m)
                 rx == ec_kem_decap(ex.out.val[2], ct_x)
                 c1 == ex.calls \o <<"ct[0..1088]", "ct[1088..1120]", "ml_kem.decap">>
                 c2 == c1 \o <<"ec_kem.decap">>
             IN  IF ~rm.ok THEN Ret(rm, c1)
                 ELSE IF ~rx.ok THEN Ret(rx, c2)
                 ELSE Ret(combiner(rm.val[1], rx.val[1], ct_x, ex.out.val[4]),
                          c2 \o <<"combiner">>)

----------------------------------------------------------------------------
(* What callers pass in *)

\* what a randomness source does when asked for 32 bytes
RandOutcomes == {Err("RandFailed")} \cup {Ok(<<Seed(k)>>) : k \in Seeds}

\* public keys: the one held, cut, extended, with one half replaced, or made up
PkInputs ==
    LET held == {k[1] : k \in kp}
    IN  held
        \cup {<<>>}
        \cup {Slice(pk, 0, ByteLen(pk) - 1) : pk \in held}
        \cup {Cat(pk, Junk(NJunk, 1)) : pk \in held}
        \cup {Cat(Slice(pk, 0, PkMLen), Junk(j, PkLen - PkMLen)) : pk \in held, j \in Junks}
        \cup {Cat(Junk(1, PkMLen), Slice(pk, PkMLen, PkLen)) : pk \in held}
        \cup {Junk(NJunk, PkLen - 1)}
        \cup {Cat(Junk(1, PkMLen), Junk(1, PkLen - PkMLen))}

\* secret keys: any seed, or the one held cut or extended, or nothing
SkInputs ==
    LET held == {k[2] : k \in kp}
    IN  {Seed(k) : k \in Seeds}
        \cup {<<>>}
        \cup {Slice(sk, 0, ByteLen(sk) - 1) : sk \in held}
        \cup {Cat(sk, Junk(NJunk, 1)) : sk \in held}

\* ciphertexts: the one held, cut, extended, with one half replaced, or made up
CtInputs ==
    LET held == {c[3] : c \in enc}
    IN  held
        \cup {<<>>}
        \cup {Slice(ct, 0, ByteLen(ct) - 1) : ct \in held}
        \cup {Cat(ct, Junk(NJunk, 1)) : ct \in held}
        \cup {Cat(Slice(ct, 0, CtMLen), Junk(j, CtLen - CtMLen)) : ct \in held, j \in Junks}
        \cup {Cat(Junk(j, CtMLen), Slice(ct, CtMLen, CtLen)) : ct \in held, j \in Junks}
        \cup {Junk(NJunk, CtLen + 1)}

\* b with the byte at position i replaced by the byte x
Flip(b, i, x) == Cat(Cat(Slice(b, 0, i), x), Slice(b, i + 1, ByteLen(b)))

\* the ends of the two parts of a ciphertext
FlipPositions == {0, CtMLen - 1, CtMLen, CtLen - 1}

\* the ciphertext held with one byte changed: to a made-up byte at either end
\* of either part, or in the top bit of its final byte
CtFlips ==
    LET held == {c[3] : c \in enc}
    IN  {Flip(ct, i, Junk(j, 1)) : ct \in held, i \in FlipPositions, j \in Junks}
        \cup {Flip(ct, CtLen - 1, Msb(Slice(ct, CtLen - 1, CtLen))) : ct \in held}

----------------------------------------------------------------------------
(* The state machine *)

Call(op, in, r) == [op |-> op, in |-> in, out |-> r.out, calls |-> r.calls]

NoCall == [op |-> "new", in |-> <<>>, out |-> Ok(<<>>), calls |-> <<>>]

\* memo = {} when nobody keeps earlier calls to compare; otherwise the call
\* just made may replace the one kept
Remember(c) == IF memo = {} THEN {memo} ELSE {memo, {c}}

\* a call in progress: its arguments, the statement it is at, its local
\* variables, and what it returned once it is done
Frame(op, in, pc) == [op |-> op, in |-> in, pc |-> pc, loc |-> <<>>, out |-> Ok(<<>>)]

Idle == Frame("none", <<>>, "idle")

Goto(f, pc, loc) == [f EXCEPT !.pc = pc, !.loc = loc]

Done(f, r) == [f EXCEPT !.pc = "done", !.loc = <<>>, !.out = r]

Init ==
    /\ kem_info = new("XWing").kem_info
    /\ kp = {}
    /\ enc = {}
    /\ last = NoCall
    /\ memo = {}
    /\ inflight = [c \in Callers |-> Idle]

\* the same, with an observer who keeps one earlier call
InitHist ==
    /\ kem_info = new("XWing").kem_info
    /\ kp = {}
    /\ enc = {}
    /\ last = NoCall
    /\ memo = {NoCall}
    /\ inflight = [c \in Callers |-> Idle]

\* a generated key pair replaces the one the caller holds
KeyGen ==
    \E rand \in RandOutcomes :
        LET r == key_gen(rand)
        IN  /\ last' = Call("key_gen", IF rand.ok THEN rand.val ELSE <<>>, r)
            /\ kp' = IF r.out.ok THEN {<<r.out.val[1], r.out.val[2]>>} ELSE kp
            /\ memo' \in Remember(last')
            /\ UNCHANGED <<kem_info, enc, inflight>>

KeyGenWithRng ==
    \E rand \in RandOutcomes :
        LET r == key_gen_with_rng(rand)
        IN  /\ last' = Call("key_gen_with_rng", IF rand.ok THEN rand.val ELSE <<>>, r)
            /\ kp' = IF r.out.ok THEN {<<r.out.val[1], r.out.val[2]>>} ELSE kp
            /\ memo' \in Remember(last')
            /\ UNCHANGED <<kem_info, enc, inflight>>

\* a successful encapsulation replaces the one the caller holds
Encap(pks) ==
    \E pk \in pks, e \in Coins, m \in Coins :
        LET r == encap(pk, Coin(e), Coin(m))
        IN  /\ last' = Call("encap", <<pk, Coin(e), Coin(m)>>, r)
            /\ enc' = IF r.out.ok THEN {<<pk, r.out.val[1], r.out.val[2]>>} ELSE enc
            /\ UNCHANGED <<kem_info, kp, memo, inflight>>

Decap(sks, cts) ==
    \E sk \in sks, ct \in cts :
        /\ last' = Call("decap", <<sk, ct>>, decap(sk, ct))
        /\ memo' \in Remember(last')
        /\ UNCHANGED <<kem_info, kp, enc, inflight>>

Next ==
    \/ KeyGen
    \/ KeyGenWithRng
    \/ Encap(PkInputs)
    \/ Decap(SkInputs, CtInputs \cup CtFlips)

Spec == Init /\ [][Next]_vars

\* with an observer the callers pass fewer kinds of input: the key held, any
\* seed, a key or ciphertext cut short, a ciphertext a component rejects
PkProbes ==
    LET held == {k[1] : k \in kp}
    IN  held \cup {Slice(pk, 0, ByteLen(pk) - 1) : pk \in held}

SkProbes ==
    LET held == {k[2] : k \in kp}
    IN  {Seed(k) : k \in Seeds} \cup {Slice(sk, 0, ByteLen(sk) - 1) : sk \in held}

CtProbes ==
    LET held == {c[3] : c \in enc}
    IN  held
        \cup {<<>>}
        \cup {Slice(ct, 0, ByteLen(ct) - 1) : ct \in held}
        \cup {Cat(Slice(ct, 0, CtMLen), Junk(1, CtLen - CtMLen)) : ct \in held}

NextHist == KeyGen \/ KeyGenWithRng \/ Encap(PkProbes) \/ Decap(SkProbes, CtProbes)

SpecHist == InitHist /\ [][NextHist]_vars

\* the library as a whole: a manager built for any variant, and the length
\* registry next to it
InitLib ==
    \E v \in KemTypes :
        /\ kem_info = new(v).kem_info
        /\ kp = {}
        /\ enc = {}
        /\ last = Call("new", <<v>>, Ret(Ok(<<new(v)>>), <<>>))
        /\ memo = {}
        /\ inflight = [c \in Callers |-> Idle]

GetKemInfo ==
    /\ last' = Call("get_kem_info", <<>>, Ret(Ok(<<get_kem_info>>), <<>>))
    /\ UNCHANGED <<kem_info, kp, enc, memo, inflight>>

GetSsLen ==
    \E t \in KemTypes :
        /\ last' = Call("get_ss_len", <<t>>, Ret(Ok(<<get_ss_len(t)>>), <<>>))
        /\ UNCHANGED <<kem_info, kp, enc, memo, inflight>>

GetSkLenDsa ==
    \E t \in DsaTypes :
        /\ last' = Call("DsaType::get_sk_len", <<t>>,
                        Ret(Ok(DsaType_get_sk_len(t)), <<>>))
        /\ UNCHANGED <<kem_info, kp, enc, memo, inflight>>

GetSkLenPrehash ==
    \E t \in PrehashDsaTypes :
        /\ last' = Call("PrehashDsaType::get_sk_len", <<t>>,
                        Ret(Ok(PrehashDsaType_get_sk_len(t)), <<>>))
        /\ UNCHANGED <<kem_info, kp, enc, memo, inflight>>

NextLib ==
    \/ GetKemInfo
    \/ GetSsLen
    \/ GetSkLenDsa
    \/ GetSkLenPrehash
    \/ KeyGen
    \/ KeyGenWithRng
    \/ Encap(PkProbes)
    \/ Decap(SkProbes, CtProbes)

SpecLib == InitLib /\ [][NextLib]_vars

----------------------------------------------------------------------------
(* Several callers on one instance.  A call advances one statement at a     *)
(* time; between two of its statements any other caller may advance.  A     *)
(* statement reads the call's own arguments and locals and the fields of    *)
(* self, which no method assigns.                                           *)

\* key_gen_with_rng, statement by statement
key_gen_with_rng_step(f) ==
    CASE f.pc = "fill_bytes" ->
            IF ~f.in[1].ok THEN Done(f, Panicked)
            ELSE Goto(f, "expand", <<f.in[1].val[1]>>)
      [] f.pc = "expand" ->
            LET ex == expand_decapsulation_key(f.loc[1])
            IN  IF ~ex.out.ok THEN Done(f, ex.out)
                ELSE Goto(f, "concat", <<f.loc[1], ex.out.val[3], ex.out.val[4]>>)
      [] f.pc = "concat" ->
            Done(f, Ok(<<Cat(f.loc[2], f.loc[3]), f.loc[1]>>))

\* encap, statement by statement; loc grows to <<pk_m, pk_x, ss_x, ct_x, ss_m, ct_m>>
encap_step(f) ==
    CASE f.pc = "check" ->
            IF ByteLen(f.in[1]) # PkLen THEN Done(f, Err("InvalidPublicKey"))
            ELSE Goto(f, "ec_encap",
                      <<Slice(f.in[1], 0, PkMLen), Slice(f.in[1], PkMLen, PkLen)>>)
      [] f.pc = "ec_encap" ->
            LET rx == ec_kem_encap(f.loc[2], f.in[2])
            IN  IF ~rx.ok THEN Done(f, rx) ELSE Goto(f, "ml_encap", f.loc \o rx.val)
      [] f.pc = "ml_encap" ->
            LET rm == ml_kem_encap(f.loc[1], f.in[3])
            IN  IF ~rm.ok THEN Done(f, rm) ELSE Goto(f, "combiner", f.loc \o rm.val)
      [] f.pc = "combiner" ->
            LET ss == combiner(f.loc[5], f.loc[3], f.loc[4], f.loc[2])
            IN  Done(f, Ok(<<ss.val[1], Cat(f.loc[6], f.loc[4])>>))

\* the expansion most recently stored by any call that got past it
Expanded(f) ==
    LET past == {c \in Callers : /\ inflight[c].op = "decap"
                                 /\ inflight[c].pc \in {"check", "ml_decap", "ec_decap", "combiner"}}
    IN  inflight[CHOOSE c \in past : \A d \in past : d <= c].loc

\* decap keeping the expanded key in the instance instead of in a local
decap_step_memoized(f) ==
    CASE f.pc = "expand" ->
            LET ex == expand_decapsulation_key(f.in[1])
            IN  IF ~ex.out.ok THEN Done(f, ex.out) ELSE Goto(f, "check", ex.out.val)
      [] f.pc = "check" ->
            IF ByteLen(f.in[2]) # CtLen THEN Done(f, Err("InvalidCiphertext"))
            ELSE Goto(f, "ml_decap",
                      f.loc \o <<Slice(f.in[2], 0, CtMLen), Slice(f.in[2], CtMLen, CtLen)>>)
      [] f.pc = "ml_decap" ->
            LET rm == ml_kem_decap(Expanded(f)[1], f.loc[5])
            IN  IF ~rm.ok THEN Done(f, rm) ELSE Goto(f, "ec_decap", f.loc \o rm.val)
      [] f.pc = "ec_decap" ->
            LET rx == ec_kem_decap(Expanded(f)[2], f.loc[6])
            IN  IF ~rx.ok THEN Done(f, rx) ELSE Goto(f, "combiner", f.loc \o rx.val)
      [] f.pc = "combiner" ->
            Done(f, combiner(f.loc[7], f.loc[8], f.loc[6], Expanded(f)[4]))

\* decap, statement by statement; loc grows to
\* <<sk_m, sk_x, pk_m, pk_x, ct_m, ct_x, ss_m, ss_x>>
decap_step(f) ==
    CASE f.pc = "expand" ->
            LET ex == expand_decapsulation_key(f.in[1])
            IN  IF ~ex.out.ok THEN Done(f, ex.out) ELSE Goto(f, "check", ex.out.val)
      [] f.pc = "check" ->
            IF ByteLen(f.in[2]) # CtLen THEN Done(f, Err("InvalidCiphertext"))
            ELSE Goto(f, "ml_decap",
                      f.loc \o <<Slice(f.in[2], 0, CtMLen), Slice(f.in[2], CtMLen, CtLen)>>)
      [] f.pc = "ml_decap" ->
            LET rm == ml_kem_decap(f.loc[1], f.loc[5])
            IN  IF ~rm.ok THEN Done(f, rm) ELSE Goto(f, "ec_decap", f.loc \o rm.val)
      [] f.pc = "ec_decap" ->
            LET rx == ec_kem_decap(f.loc[2], f.loc[6])
            IN  IF ~rx.ok THEN Done(f, rx) ELSE Goto(f, "combiner", f.loc \o rx.val)
      [] f.pc = "combiner" ->
            Done(f, combiner(f.loc[7], f.loc[8], f.loc[6], f.loc[4]))

\* what the callers share: one key pair and one encapsulation made for it
SharedKp == key_gen_with_rng(Ok(<<Seed(NSeeds)>>)).out.val

SharedCt == encap(SharedKp[1], Coin(1), Coin(1)).out.val[2]

\* each caller passes the shared value or that value cut short
PkShared == {SharedKp[1], Slice(SharedKp[1], 0, PkLen - 1)}

SkShared == {SharedKp[2], Slice(SharedKp[2], 0, SeedLen - 1)}

CtShared == {SharedCt, Slice(SharedCt, 0, CtLen - 1)}

Free(c) == inflight[c].pc \in {"idle", "done"}

BeginKeyGenWithRng(c) ==
    /\ Free(c)
    /\ \E rand \in RandOutcomes :
        inflight' = [inflight EXCEPT ![c] = Frame("key_gen_with_rng", <<rand>>, "fill_bytes")]
    /\ UNCHANGED <<kem_info, kp, enc, last, memo>>

BeginEncap(c) ==
    /\ Free(c)
    /\ \E pk \in PkShared, k \in Coins :
        inflight' = [inflight EXCEPT ![c] = Frame("encap", <<pk, Coin(k), Coin(k)>>, "check")]
    /\ UNCHANGED <<kem_info, kp, enc, last, memo>>

BeginDecap(c) ==
    /\ Free(c)
    /\ \E sk \in SkShared, ct \in CtShared :
        inflight' = [inflight EXCEPT ![c] = Frame("decap", <<sk, ct>>, "expand")]
    /\ UNCHANGED <<kem_info, kp, enc, last, memo>>

StepKeyGenWithRng(c) ==
    /\ ~Free(c)
    /\ inflight[c].op = "key_gen_with_rng"
    /\ inflight' = [inflight EXCEPT ![c] = key_gen_with_rng_step(inflight[c])]
    /\ UNCHANGED <<kem_info, kp, enc, last, memo>>

StepEncap(c) ==
    /\ ~Free(c)
    /\ inflight[c].op = "encap"
    /\ inflight' = [inflight EXCEPT ![c] = encap_step(inflight[c])]
    /\ UNCHANGED <<kem_info, kp, enc, last, memo>>

StepDecap(c) ==
    /\ ~Free(c)
    /\ inflight[c].op = "decap"
    /\ inflight' = [inflight EXCEPT ![c] = decap_step(inflight[c])]
    /\ UNCHANGED <<kem_info, kp, enc, last, memo>>

NextConc ==
    \E c \in Callers :
        \/ BeginKeyGenWithRng(c)
        \/ BeginEncap(c)
        \/ BeginDecap(c)
        \/ StepKeyGenWithRng(c)
        \/ StepEncap(c)
        \/ StepDecap(c)

SpecConc == Init /\ [][NextConc]_vars

----------------------------------------------------------------------------
(* Properties *)

KeyGenOps == {"key_gen", "key_gen_with_rng"}

\* C1: round trip.  For the key pair a key generation returned and an
\* encapsulation (ss, ct) made for its public key, decap(sk, ct) succeeds and
\* returns exactly ss.
C1_RoundTrip ==
    /\ \A k \in kp, c \in enc :
           c[1] = k[1] => decap(k[2], c[3]).out = Ok(<<c[2]>>)
    /\ \A k \in kp, c \in enc :
           (last.op = "decap" /\ c[1] = k[1] /\ last.in = <<k[2], c[3]>>)
               => last.out = Ok(<<c[2]>>)

C1_Witness ==
    \E k \in kp, c \in enc :
        /\ c[1] = k[1]
        /\ last.op = "decap"
        /\ last.in = <<k[2], c[3]>>
        /\ last.out = Ok(<<c[2]>>)

\* C2: encap of a public key whose length is not 1216 fails with
\* InvalidPublicKey, returns nothing, and has neither sliced pk nor called a
\* component.
C2_EncapWrongPkLen ==
    (last.op = "encap" /\ ByteLen(last.in[1]) # 1216)
        => (last.out = Err("InvalidPublicKey") /\ last.calls = <<>>)

C2_Witness ==
    /\ last.op = "encap"
    /\ ByteLen(last.in[1]) = 1217
    /\ last.out = Err("InvalidPublicKey")

C2_WitnessShort ==
    /\ last.op = "encap"
    /\ ByteLen(last.in[1]) \in {0, 1215}
    /\ last.out = Err("InvalidPublicKey")

C4_SkLenValidated ==
    (last.op = "decap" /\ ByteLen(last.in[1]) # 32)
        => (last.out = Err("InvalidPrivateKey") /\ last.calls = <<>>)

\* the part of C4 that matters most: no shared secret for a 31- or 33-byte sk
C4_NoSecretForWrongSkLen ==
    (last.op = "decap" /\ ByteLen(last.in[1]) # 32) => ~last.out.ok

\* C5: a successful key generation returns (pk, sk) with sk the 32 bytes
\* drawn and pk = pk_m || pk_x, the 1184-byte ML-KEM and the 32-byte X25519
\* public key of expand(sk); so pk has 1216 bytes and sk 32.
C5_KeyGenResult ==
    (last.op \in KeyGenOps /\ last.out.ok)
        => LET pk == last.out.val[1]
               sk == last.out.val[2]
               ex == expand_decapsulation_key(sk).out
           IN  /\ Len(last.out.val) = 2
               /\ sk = last.in[1]
               /\ ex.ok
               /\ ByteLen(ex.val[3]) = 1184
               /\ ByteLen(ex.val[4]) = 32
               /\ Slice(pk, 0, 1184) = ex.val[3]
               /\ Slice(pk, 1184, 1216) = ex.val[4]
               /\ ByteLen(pk) = 1216
               /\ ByteLen(sk) = 32
               /\ kp = {<<pk, sk>>}

C5_Witness ==
    /\ last.op = "key_gen"
    /\ last.out.ok
    /\ ByteLen(last.out.val[1]) = 1216
    /\ last.out.val[2] = last.in[1]

\* C6: a successful encap returns (ss, ct) with ct = ct_m || ct_x, 1120 =
\* 1088 + 32 bytes, and ss of 32 = get_ss_len(XWing) bytes; so decap never
\* answers InvalidCiphertext to a ciphertext encap produced.
C6_EncapResult ==
    (last.op = "encap" /\ last.out.ok)
        => LET pk == last.in[1]
               ss == last.out.val[1]
               ct == last.out.val[2]
               rx == ec_kem_encap(Slice(pk, 1184, 1216), last.in[2])
               rm == ml_kem_encap(Slice(pk, 0, 1184), last.in[3])
           IN  /\ Len(last.out.val) = 2
               /\ rx.ok /\ rm.ok
               /\ Slice(ct, 0, 1088) = rm.val[2]
               /\ Slice(ct, 1088, 1120) = rx.val[2]
               /\ ByteLen(ct) = 1120
               /\ ByteLen(ss) = 32
               /\ ByteLen(ss) = get_ss_len("XWing")
               /\ \A sk \in SkInputs : decap(sk, ct).out # Err("InvalidCiphertext")

C6_Witness ==
    /\ last.op = "encap"
    /\ last.out.ok
    /\ ByteLen(last.out.val[2]) = 1120
    /\ ByteLen(last.out.val[1]) = 32
    /\ enc = {<<last.in[1], last.out.val[1], last.out.val[2]>>}

Range(q) == {q[i] : i \in DOMAIN q}

\* C9: when a component decapsulation fails inside decap, decap returns
\* DecapFailed and the combiner is not run.
C9_ComponentFailure ==
    last.op = "decap"
        => LET ex == expand_decapsulation_key(last.in[1]).out
               ct == last.in[2]
           IN  (/\ ex.ok
                /\ ByteLen(ct) = 1120
                /\ \/ ~ml_kem_decap(ex.val[1], Slice(ct, 0, 1088)).ok
                   \/ ~ec_kem_decap(ex.val[2], Slice(ct, 1088, 1120)).ok)
                   => (last.out = Err("DecapFailed") /\ "combiner" \notin Range(last.calls))

C9_Witness ==
    /\ last.op = "decap"
    /\ "ec_kem.decap" \in Range(last.calls)
    /\ last.out = Err("DecapFailed")

C9_WitnessMl ==
    /\ last.op = "decap"
    /\ "ml_kem.decap" \in Range(last.calls)
    /\ "ec_kem.decap" \notin Range(last.calls)
    /\ last.out = Err("DecapFailed")

\* C10 as stated: key_gen and key_gen_with_rng fail with
\* KeyPairGenerationFailed when the randomness source fails, return no key
\* pair and expand nothing.
C10_RandFailure ==
    (last.op \in KeyGenOps /\ last.in = <<>>)
        => (last.out = Err("KeyPairGenerationFailed") /\ Len(last.calls) = 1)

----------------------------------------------------------------------------
(* C11: every registry lookup is total and yields a usable length:          *)
(* get_ss_len answers each KemType with a length above 0, and get_sk_len    *)
(* answers each DsaType and each PrehashDsaType with None or with Some(n),  *)
(* n above 0; the answer depends on the variant alone.                      *)
IsLen(o) == o = None \/ (Len(o) = 1 /\ o[1] > 0)

C11_RegistryTotal ==
    /\ last.op = "get_ss_len" =>
        /\ last.in[1] \in KemTypes
        /\ last.out = Ok(<<get_ss_len(last.in[1])>>)
        /\ last.out.val[1] > 0
    /\ last.op = "DsaType::get_sk_len" =>
        /\ last.in[1] \in DsaTypes
        /\ last.out = Ok(DsaType_get_sk_len(last.in[1]))
        /\ IsLen(last.out.val)
    /\ last.op = "PrehashDsaType::get_sk_len" =>
        /\ last.in[1] \in PrehashDsaTypes
        /\ last.out = Ok(PrehashDsaType_get_sk_len(last.in[1]))
        /\ IsLen(last.out.val)

\* an RSA variant has been looked up on a manager that holds a key pair
C11_Witness ==
    /\ last.op = "DsaType::get_sk_len"
    /\ last.in = <<"Rsa4096PssSha384">>
    /\ last.out.val = None
    /\ kp # {}

----------------------------------------------------------------------------
(* C12: decapsulating, with the secret key of an honest key pair, a         *)
(* ciphertext that differs in exactly one byte from the one encap made for  *)
(* that pair's public key never returns the secret encap returned.          *)
DiffersInOneByte(a, b) ==
    /\ ByteLen(a) = ByteLen(b)
    /\ \E i \in 0..(ByteLen(a) - 1) :
        /\ Slice(a, 0, i) = Slice(b, 0, i)
        /\ Slice(a, i, i + 1) # Slice(b, i, i + 1)
        /\ Slice(a, i + 1, ByteLen(a)) = Slice(b, i + 1, ByteLen(b))

C12_CiphertextBinding ==
    \A k \in kp, c \in enc :
        (/\ last.op = "decap"
         /\ c[1] = k[1]
         /\ last.in[1] = k[2]
         /\ DiffersInOneByte(c[3], last.in[2]))
        => last.out # Ok(<<c[2]>>)

\* the ciphertext came back with the top bit of its last byte flipped, which
\* X25519 does not see: decap returned a secret, not the one encap returned
C12_Witness ==
    \E k \in kp, c \in enc :
        /\ last.op = "decap"
        /\ c[1] = k[1]
        /\ last.in = <<k[2], Flip(c[3], CtLen - 1, Msb(Slice(c[3], CtLen - 1, CtLen)))>>
        /\ ec_kem_decap(expand_decapsulation_key(k[2]).out.val[2],
                        Slice(last.in[2], CtMLen, CtLen))
           = ec_kem_decap(expand_decapsulation_key(k[2]).out.val[2],
                          Slice(c[3], CtMLen, CtLen))
        /\ last.out.ok
        /\ last.out # Ok(<<c[2]>>)

----------------------------------------------------------------------------
(* C13: however the statements of the calls in progress on one instance     *)
(* interleave, a call that has returned has returned exactly what the same  *)
(* call returns when it runs alone on the same arguments and randomness.    *)
Alone(f) ==
    CASE f.op = "key_gen_with_rng" -> key_gen_with_rng(f.in[1]).out
      [] f.op = "encap" -> encap(f.in[1], f.in[2], f.in[3]).out
      [] f.op = "decap" -> decap(f.in[1], f.in[2]).out

C13_ConcurrentAsAlone ==
    \A c \in Callers : inflight[c].pc = "done" => inflight[c].out = Alone(inflight[c])

\* a decapsulation with the shared key has returned a secret while another
\* caller, using a different key, is between the statements of its own
C13_Witness ==
    \E c, d \in Callers :
        /\ inflight[c].op = "decap"
        /\ inflight[c].in = <<SharedKp[2], SharedCt>>
        /\ inflight[c].pc = "done"
        /\ inflight[c].out.ok
        /\ inflight[d].op = "decap"
        /\ inflight[d].in[1] # SharedKp[2]
        /\ inflight[d].pc = "ec_decap"

----------------------------------------------------------------------------
(* C14: encap calls the X25519 encapsulation first, the ML-KEM              *)
(* encapsulation only after that one succeeded, and the combiner only after *)
(* both succeeded; when a component fails encap returns that component's    *)
(* error, without a secret or a ciphertext, and calls nothing further.      *)
Pos(q, x) == CHOOSE i \in DOMAIN q : q[i] = x

C14_EncapOrder ==
    (last.op = "encap" /\ ByteLen(last.in[1]) = PkLen) =>
        LET called == Range(last.calls)
            rx == ec_kem_encap(Slice(last.in[1], PkMLen, PkLen), last.in[2])
            rm == ml_kem_encap(Slice(last.in[1], 0, PkMLen), last.in[3])
        IN  /\ "ec_kem.encap" \in called
            /\ "ml_kem.encap" \in called <=> rx.ok
            /\ "ml_kem.encap" \in called =>
                Pos(last.calls, "ec_kem.encap") < Pos(last.calls, "ml_kem.encap")
            /\ "combiner" \in called <=> (rx.ok /\ rm.ok)
            /\ "combiner" \in called =>
                Pos(last.calls, "ml_kem.encap") < Pos(last.calls, "combiner")
            /\ ~rx.ok => last.out = rx
            /\ (rx.ok /\ ~rm.ok) => last.out = rm
            /\ ~last.out.ok => last.out.val = <<>>
            /\ last.out.ok <=> (rx.ok /\ rm.ok)

\* both halves of the public key are ones the components reject: encap
\* failed in the X25519 encapsulation and never called ML-KEM
C14_Witness ==
    /\ last.op = "encap"
    /\ last.in[1] = Cat(Junk(1, PkMLen), Junk(1, PkLen - PkMLen))
    /\ ~ml_kem_encap(Slice(last.in[1], 0, PkMLen), last.in[3]).ok
    /\ last.out = Err("EncapFailed")
    /\ "ec_kem.encap" \in Range(last.calls)
    /\ "ml_kem.encap" \notin Range(last.calls)

----------------------------------------------------------------------------
(* C15: for a composite, pure or pre-hashed, get_sk_len is the sum of the   *)
(* lengths of its ML-DSA component and of its traditional component and of  *)
(* the 10 bytes of the sequence; it is None exactly when the traditional    *)
(* component is an RSA variant, which is when that component has no fixed   *)
(* length; a pre-hashed composite has the length of its pure form.          *)
C15_CompositeSkLen ==
    (last.op = "PrehashDsaType::get_sk_len" /\ last.in[1] \in Composites) =>
        LET t == last.in[1]
            pq == PrehashDsaType_get_sk_len(MlDsaComponent(t))
            tr == DsaType_get_sk_len(TradComponent(t))
        IN  /\ pq # None
            /\ tr # None => last.out.val = Some(pq[1] + tr[1] + SeqOverhead)
            /\ tr = None <=> TradComponent(t) \in RsaTypes
            /\ last.out.val = None <=> tr = None
            /\ last.out.val = PrehashDsaType_get_sk_len(PureForm(t))

\* a pre-hashed composite with a 57-byte traditional key has been looked up
C15_Witness ==
    /\ last.op = "PrehashDsaType::get_sk_len"
    /\ last.in = <<"MlDsa87Ed448Sha512">>
    /\ TradComponent(last.in[1]) = "Ed448"
    /\ PureForm(last.in[1]) # last.in[1]
    /\ last.out.val = Some(4963)

----------------------------------------------------------------------------
(* C16: new accepts every KemType: the manager it builds reports that       *)
(* variant from get_kem_info and has ML-KEM-768 and X25519 as components    *)
(* whatever the variant; encap and decap check for 1216 and 1120 bytes and  *)
(* produce 1120-byte ciphertexts and 32-byte secrets whatever the variant.  *)
C16_VariantNotValidated ==
    /\ kem_info \in KemTypes
    /\ last.op = "new" =>
        /\ last.out.ok
        /\ last.out.val[1].kem_info = last.in[1]
        /\ last.out.val[1].ml_kem = "MlKem768"
        /\ last.out.val[1].ec_kem = "X25519"
        /\ kem_info = last.in[1]
    /\ last.op = "get_kem_info" => last.out = Ok(<<kem_info>>)
    /\ last.op = "encap" =>
        /\ ByteLen(last.in[1]) # PkLen => last.out = Err("InvalidPublicKey")
        /\ last.out.ok =>
            /\ ByteLen(last.in[1]) = PkLen
            /\ ByteLen(last.out.val[1]) = 32
            /\ ByteLen(last.out.val[2]) = CtLen
    /\ last.op = "decap" =>
        /\ (expand_decapsulation_key(last.in[1]).out.ok /\ ByteLen(last.in[2]) # CtLen)
            => last.out = Err("InvalidCiphertext")
        /\ last.out.ok => (ByteLen(last.in[2]) = CtLen /\ ByteLen(last.out.val[1]) = 32)
    /\ last.op \in KeyGenOps =>
        (last.out.ok => ByteLen(last.out.val[1]) = PkLen)

\* a manager built for X448, whose registered secret length is 56, has
\* encapsulated to a 1216-byte key and returned a 32-byte secret
C16_Witness ==
    /\ kem_info = "X448"
    /\ get_ss_len(kem_info) = 56
    /\ last.op = "encap"
    /\ ByteLen(last.in[1]) = PkLen
    /\ last.out.ok
    /\ ByteLen(last.out.val[1]) = 32
    /\ ByteLen(last.out.val[2]) = CtLen

====
